---------------------------- MODULE Spec2Model ----------------------------
(***************************************************************************)
(* PDFSectionExtractor (app/controllers/extract_headers.py): the line      *)
(* classifier, title/author detection, the section-tree builder and the    *)
(* headers-only projection; TextPreprocessor                               *)
(* (app/controllers/text_preprocessor.py): the five stages of              *)
(* run_pipeline; and the pipeline of extract_pdf_headers that joins them.  *)
(*                                                                         *)
(* Text is modelled by TLA+ strings; a character is a string of length 1.  *)
(* Python's None is the empty tuple and a present optional value x is the  *)
(* one-element tuple <<x>>.                                                *)
(***************************************************************************)
EXTENDS Integers, Sequences, FiniteSets, TLC

\* ------------------------------------------------------------------------
\* Characters and strings
\* ------------------------------------------------------------------------

Ch(s, i) == IF i >= 1 /\ i <= Len(s) THEN SubSeq(s, i, i) ELSE ""

None == << >>

Some(x) == << x >>

Truthy(opt) == opt # None /\ opt[1] # ""

Digits == {"0", "1", "2", "3", "4", "5", "6", "7", "8", "9"}

Spaces == {" ", "\t", "\n"}

LineBreaks == {"\n"}

RomanLetters == {"i", "v", "x", "l", "c", "d", "m"}

AccentedLetters == {"á", "é", "í", "ó", "ú", "ñ"}

AsciiLetters ==
    {"a", "b", "c", "d", "e", "f", "g", "h", "i", "j", "k", "l", "m",
     "n", "o", "p", "q", "r", "s", "t", "u", "v", "w", "x", "y", "z"}

LowerCh(c) ==
    CASE c = "A" -> "a" [] c = "B" -> "b" [] c = "C" -> "c" [] c = "D" -> "d"
      [] c = "E" -> "e" [] c = "F" -> "f" [] c = "G" -> "g" [] c = "H" -> "h"
      [] c = "I" -> "i" [] c = "J" -> "j" [] c = "K" -> "k" [] c = "L" -> "l"
      [] c = "M" -> "m" [] c = "N" -> "n" [] c = "O" -> "o" [] c = "P" -> "p"
      [] c = "Q" -> "q" [] c = "R" -> "r" [] c = "S" -> "s" [] c = "T" -> "t"
      [] c = "U" -> "u" [] c = "V" -> "v" [] c = "W" -> "w" [] c = "X" -> "x"
      [] c = "Y" -> "y" [] c = "Z" -> "z"
      [] c = "Á" -> "á" [] c = "É" -> "é" [] c = "Í" -> "í" [] c = "Ó" -> "ó"
      [] c = "Ú" -> "ú" [] c = "Ñ" -> "ñ"
      [] OTHER -> c

RECURSIVE LowerFrom(_, _)
LowerFrom(s, i) ==
    IF i > Len(s) THEN "" ELSE LowerCh(Ch(s, i)) \o LowerFrom(s, i + 1)

\* str.lower()
Lower(s) == LowerFrom(s, 1)

IsDigit(c) == c \in Digits

IsSpace(c) == c \in Spaces

\* [IVXLCDM] under re.IGNORECASE
IsRoman(c) == LowerCh(c) \in RomanLetters

\* [a-záéíóúñ] under re.IGNORECASE
IsAuthorLetter(c) == LowerCh(c) \in AsciiLetters \cup AccentedLetters

\* First position q >= p of s that holds no digit (Len(s) + 1 when none): \d*
SkipDigits(s, p) ==
    CHOOSE q \in p..(Len(s) + 1) :
        /\ \A k \in p..(q - 1) : IsDigit(Ch(s, k))
        /\ ~IsDigit(Ch(s, q))

\* \s*
SkipSpaces(s, p) ==
    CHOOSE q \in p..(Len(s) + 1) :
        /\ \A k \in p..(q - 1) : IsSpace(Ch(s, k))
        /\ ~IsSpace(Ch(s, q))

\* [IVXLCDM]*
SkipRoman(s, p) ==
    CHOOSE q \in p..(Len(s) + 1) :
        /\ \A k \in p..(q - 1) : IsRoman(Ch(s, k))
        /\ ~IsRoman(Ch(s, q))

\* [a-záéíóúñ]*
SkipAuthorLetters(s, p) ==
    CHOOSE q \in p..(Len(s) + 1) :
        /\ \A k \in p..(q - 1) : IsAuthorLetter(Ch(s, k))
        /\ ~IsAuthorLetter(Ch(s, q))

\* First position q >= p of s that holds white space (Len(s) + 1 when none)
SkipWord(s, p) ==
    CHOOSE q \in p..(Len(s) + 1) :
        /\ \A k \in p..(q - 1) : ~IsSpace(Ch(s, k))
        /\ q = Len(s) + 1 \/ IsSpace(Ch(s, q))

\* The literal w (lower case) occurs in s at position p, ignoring case
AtCI(s, p, w) ==
    /\ p >= 1
    /\ p + Len(w) - 1 <= Len(s)
    /\ \A k \in 1..Len(w) : LowerCh(Ch(s, p + k - 1)) = Ch(w, k)

\* str.strip()
Strip(s) ==
    LET a == SkipSpaces(s, 1)
        b == IF a > Len(s) THEN a - 1
             ELSE CHOOSE e \in a..Len(s) :
                     /\ ~IsSpace(Ch(s, e))
                     /\ \A k \in (e + 1)..Len(s) : IsSpace(Ch(s, k))
    IN SubSeq(s, a, b)

RECURSIVE WordsFrom(_, _)
WordsFrom(s, p) ==
    LET a == SkipSpaces(s, p)
        b == SkipWord(s, a)
    IN IF a > Len(s) THEN << >>
       ELSE << SubSeq(s, a, b - 1) >> \o WordsFrom(s, b)

\* str.split(): the maximal runs of non-white-space characters
Words(s) == WordsFrom(s, 1)

RECURSIVE SplitFrom(_, _)
SplitFrom(s, p) ==
    LET stops == {q \in p..Len(s) : Ch(s, q) \in LineBreaks}
        q == IF stops = {} THEN Len(s) + 1
             ELSE CHOOSE m \in stops : \A n \in stops : m <= n
    IN IF p > Len(s) THEN << >>
       ELSE << SubSeq(s, p, q - 1) >> \o SplitFrom(s, q + 1)

\* str.splitlines(): no empty last line after a final line break
SplitLines(s) == SplitFrom(s, 1)

RECURSIVE JoinFrom(_, _, _)
JoinFrom(seq, sep, i) ==
    IF i > Len(seq) THEN ""
    ELSE IF i = Len(seq) THEN seq[i]
    ELSE seq[i] \o sep \o JoinFrom(seq, sep, i + 1)

\* sep.join(seq)
Join(seq, sep) == JoinFrom(seq, sep, 1)

\* ------------------------------------------------------------------------
\* Patterns of the classifier (re.match: anchored at the start of the line)
\* ------------------------------------------------------------------------

RECURSIVE DottedEnd(_, _)
\* (?:\.\d+)* from position p: the position after the last ".<digits>" group
DottedEnd(s, p) ==
    IF Ch(s, p) = "." /\ IsDigit(Ch(s, p + 1))
    THEN DottedEnd(s, SkipDigits(s, p + 1))
    ELSE p

\* SECTION_NUMBER_PATTERN \d+(?:\.\d+)*|[IVXLCDM]+ at the start of s: the
\* position after the token, 1 when s starts with no token.  Every pattern
\* that uses the token continues with [\.\)]?$ or [\.\)]?\s+, which no
\* shorter token satisfies, so the greedy end is the end the match uses.
NumberTokenEnd(s) ==
    IF IsDigit(Ch(s, 1)) THEN DottedEnd(s, SkipDigits(s, 1))
    ELSE IF IsRoman(Ch(s, 1)) THEN SkipRoman(s, 1)
    ELSE 1

\* Position after an optional character of the set cs at position p
SkipOpt(s, p, cs) == IF Ch(s, p) \in cs THEN p + 1 ELSE p

\* \s+.+ from position p: white space, then at least one more character
SpaceThenText(s, p) == IsSpace(Ch(s, p)) /\ Len(s) >= p + 1

\* The em dash (U+2014) of the two classes below is outside the characters a
\* TLA+ string can hold; no modelled line contains it.
MarkerSeparators == {":", "-"}

\* RE_ABSTRACT ^(abstract|resumen)[\s\u2014:-]
RE_ABSTRACT(s) ==
    \E w \in {"abstract", "resumen"} :
        /\ AtCI(s, 1, w)
        /\ Ch(s, Len(w) + 1) \in Spaces \cup MarkerSeparators

\* RE_KEYWORDS ^(keywords|index terms|palabras clave)[\s\u2014:-]
RE_KEYWORDS(s) ==
    \E w \in {"keywords", "index terms", "palabras clave"} :
        /\ AtCI(s, 1, w)
        /\ Ch(s, Len(w) + 1) \in Spaces \cup MarkerSeparators

\* RE_SECTION ^(SECTION_NUMBER_PATTERN)[\.\)]?\s+.+
RE_SECTION(s) ==
    LET e == NumberTokenEnd(s)
    IN /\ e > 1
       /\ SpaceThenText(s, SkipOpt(s, e, {".", ")"}))

\* group(1) of RE_SECTION
SectionNumberGroup(s) == SubSeq(s, 1, NumberTokenEnd(s) - 1)

\* RE_SECTION_NUMBER_ONLY ^(SECTION_NUMBER_PATTERN)[\.\)]?$
RE_SECTION_NUMBER_ONLY(s) ==
    LET e == NumberTokenEnd(s)
    IN /\ e > 1
       /\ SkipOpt(s, e, {".", ")"}) = Len(s) + 1

\* Variant: the English heading only
ReferencesEnglishOnly(s) ==
    AtCI(s, 1, "references") /\ SkipSpaces(s, Len("references") + 1) > Len(s)

\* RE_REFERENCES ^(references|referencias)\s*$
RE_REFERENCES(s) ==
    \E w \in {"references", "referencias"} :
        /\ AtCI(s, 1, w)
        /\ SkipSpaces(s, Len(w) + 1) = Len(s) + 1

\* RE_FIGURE_INLINE ^(fig|figure)\.?\s*\d+
RE_FIGURE_INLINE(s) ==
    \E w \in {"fig", "figure"} :
        /\ AtCI(s, 1, w)
        /\ IsDigit(Ch(s, SkipSpaces(s, SkipOpt(s, Len(w) + 1, {"."}))))

\* RE_FIGURE_CAPTION ^(fig|figure)\.?\s*\d+[\.:]?\s+.+
RE_FIGURE_CAPTION(s) ==
    \E w \in {"fig", "figure"} :
        /\ AtCI(s, 1, w)
        /\ LET d == SkipSpaces(s, SkipOpt(s, Len(w) + 1, {"."}))
           IN /\ IsDigit(Ch(s, d))
              /\ SpaceThenText(s, SkipOpt(s, SkipDigits(s, d), {".", ":"}))

\* RE_TABLE_INLINE ^table\s*\d+
RE_TABLE_INLINE(s) ==
    /\ AtCI(s, 1, "table")
    /\ IsDigit(Ch(s, SkipSpaces(s, 6)))

\* RE_TABLE_CAPTION ^table\s*\d+[\.:]?\s+.+
RE_TABLE_CAPTION(s) ==
    /\ AtCI(s, 1, "table")
    /\ LET d == SkipSpaces(s, 6)
       IN /\ IsDigit(Ch(s, d))
          /\ SpaceThenText(s, SkipOpt(s, SkipDigits(s, d), {".", ":"}))

\* RE_EQUATION ^\(?\d+\)?$
RE_EQUATION(s) ==
    LET d == SkipOpt(s, 1, {"("})
    IN /\ IsDigit(Ch(s, d))
       /\ SkipOpt(s, SkipDigits(s, d), {")"}) = Len(s) + 1

\* RE_AUTHOR ^[a-záéíóúñ]+(\s+[a-záéíóúñ]+){1,3}$
RE_AUTHOR(s) ==
    LET ws == Words(s)
    IN /\ Len(ws) \in 2..4
       /\ ~IsSpace(Ch(s, 1))
       /\ ~IsSpace(Ch(s, Len(s)))
       /\ \A k \in 1..Len(ws) :
             SkipAuthorLetters(ws[k], 1) = Len(ws[k]) + 1

SECTION_TEXT_ONLY ==
    {"introduction", "background", "related work", "methodology", "methods",
     "dataset", "data", "experiments", "results", "discussion", "conclusion",
     "future work", "materials and methods",
     "trabajo relacionado", "metodología", "resultados", "discusión",
     "conclusione", "conclusiones"}

\* RE_SECTION_TEXT_ONLY ^(introduction|...|conclusiones?)$
RE_SECTION_TEXT_ONLY(s) == Lower(s) \in SECTION_TEXT_ONLY

\* RE_URL https?://|www\.  (re.search: anywhere in the line)
RE_URL(s) ==
    \E p \in 1..Len(s) :
        \E w \in {"http://", "https://", "www."} : AtCI(s, p, w)

\* RE_RQ_HEADER ^(\d+)\.\s+rq\d+\s*:
RE_RQ_HEADER(s) ==
    LET e == SkipDigits(s, 1)
        r == SkipSpaces(s, e + 1)
    IN /\ e > 1
       /\ Ch(s, e) = "."
       /\ r > e + 1
       /\ AtCI(s, r, "rq")
       /\ IsDigit(Ch(s, r + 2))
       /\ Ch(s, SkipSpaces(s, SkipDigits(s, r + 2))) = ":"

NON_SECTION_KEYWORDS ==
    {"figure", "fig", "table", "equation", "eq", "algorithm", "source", "note"}

VALID_SECTION_STARTERS ==
    {"introduction", "background", "related", "method", "methods",
     "methodology", "experiment", "experiments", "results", "discussion",
     "conclusion", "future", "dataset", "data", "materials", "evaluation",
     "trabajo", "metodología", "resultados", "discusión", "conclusiones"}

MaxCaptionWords == 10

\* ------------------------------------------------------------------------
\* Helpers
\* ------------------------------------------------------------------------

\* str.count(".")
CountDots(s) == Cardinality({k \in 1..Len(s) : Ch(s, k) = "."})

\* Variant: the depth without the "+ 1"
NumericDepthDotsOnly(number) == CountDots(number)

_numeric_depth(number) == CountDots(number) + 1

\* Variant: the caption test without the word count
LooksLikeCaptionNoCount(line) ==
    LET words == Words(Lower(line))
    IN \/ \E k \in 1..Len(words) : words[k] \in NON_SECTION_KEYWORDS
       \/ Ch(line, Len(line)) = "."

_looks_like_caption(line) ==
    LET words == Words(Lower(line))
    IN \/ Len(words) > MaxCaptionWords
       \/ \E k \in 1..Len(words) : words[k] \in NON_SECTION_KEYWORDS
       \/ Ch(line, Len(line)) = "."

\* Variant: the whole line, not its first word, is looked up
LooksLikeSectionWholeLine(line) == Lower(line) \in VALID_SECTION_STARTERS

_looks_like_section(line) ==
    Words(Lower(line))[1] \in VALID_SECTION_STARTERS

\* str.isalpha() of a numbering token: all letters, at least one character
IsAlpha(number) ==
    /\ Len(number) > 0
    /\ \A k \in 1..Len(number) : ~IsDigit(Ch(number, k)) /\ Ch(number, k) # "."

\* ------------------------------------------------------------------------
\* Line classification
\* ------------------------------------------------------------------------

Labels ==
    {"references", "noise", "abstract", "keywords", "section_number",
     "section", "subsection", "content"}

\* Variant: the URL test made after the numbered-heading rule
ClassifyLineUrlLate(s) ==
    IF RE_REFERENCES(s) THEN "references"
    ELSE IF \/ RE_FIGURE_CAPTION(s)
            \/ RE_TABLE_CAPTION(s)
            \/ RE_FIGURE_INLINE(s)
            \/ RE_TABLE_INLINE(s)
            \/ RE_EQUATION(s)
         THEN "noise"
    ELSE IF RE_RQ_HEADER(s) THEN "section"
    ELSE IF RE_ABSTRACT(s) THEN "abstract"
    ELSE IF RE_KEYWORDS(s) THEN "keywords"
    ELSE IF RE_SECTION_NUMBER_ONLY(s) THEN "section_number"
    ELSE IF RE_SECTION(s)
         THEN IF _looks_like_caption(s) THEN "noise"
              ELSE IF IsAlpha(SectionNumberGroup(s)) THEN "section"
              ELSE IF _numeric_depth(SectionNumberGroup(s)) = 1
                   THEN "section"
                   ELSE "subsection"
    ELSE IF RE_URL(s) THEN "noise"
    ELSE IF RE_SECTION_TEXT_ONLY(s)
         THEN IF ~_looks_like_section(s) THEN "noise" ELSE "section"
    ELSE "content"

classify_line(line) ==
    IF RE_REFERENCES(line) THEN "references"
    ELSE IF \/ RE_FIGURE_CAPTION(line)
            \/ RE_TABLE_CAPTION(line)
            \/ RE_FIGURE_INLINE(line)
            \/ RE_TABLE_INLINE(line)
            \/ RE_EQUATION(line)
         THEN "noise"
    ELSE IF RE_RQ_HEADER(line) THEN "section"
    ELSE IF RE_URL(line) THEN "noise"
    ELSE IF RE_ABSTRACT(line) THEN "abstract"
    ELSE IF RE_KEYWORDS(line) THEN "keywords"
    ELSE IF RE_SECTION_NUMBER_ONLY(line) THEN "section_number"
    ELSE IF RE_SECTION(line)
         THEN IF _looks_like_caption(line) THEN "noise"
              ELSE IF IsAlpha(SectionNumberGroup(line)) THEN "section"
              ELSE IF _numeric_depth(SectionNumberGroup(line)) = 1
                   THEN "section"
                   ELSE "subsection"
    ELSE IF RE_SECTION_TEXT_ONLY(line)
         THEN IF ~_looks_like_section(line) THEN "noise" ELSE "section"
    ELSE "content"

\* ------------------------------------------------------------------------
\* State
\* ------------------------------------------------------------------------

VARIABLES
    raw_text,                 \* self.raw_text
    lines,                    \* self.lines
    title,                    \* self.title
    authors,                  \* self.authors
    sections,                 \* self.sections
    current,                  \* build_sections: the open node
    pending_section_number,   \* build_sections: the pending-number slot
    i,                        \* build_sections: position of the loop in lines
    line,                     \* build_sections: the line of the last iteration
    label,                    \* build_sections: its label
    headers,                  \* the list extract_pdf_headers returns
    pc,                       \* "process" | "build" | "break" | "returned"
                              \* | "projected"; in the pipeline before
                              \* them "extract" | "margins" | "sections"
                              \* | "citations" | "paragraphs" | "case"
                              \* | "construct", and "error"
    original_text,            \* TextPreprocessor: self.original_text
    cleaned_text,             \* TextPreprocessor: self.cleaned_text
    warnings,                 \* TextPreprocessor: self.warnings
    calls                     \* the number of calls of process() so far

vars ==
    << raw_text, lines, title, authors, sections, current,
       pending_section_number, i, line, label, headers, pc,
       original_text, cleaned_text, warnings, calls >>

\* The variables the methods of PDFSectionExtractor do not touch
outer_vars == << original_text, cleaned_text, warnings, calls >>

\* ------------------------------------------------------------------------
\* Inputs
\* ------------------------------------------------------------------------

MaxLines == 3

\* Raw lines of the documents: one or two of every label, a blank line and a
\* line with surrounding white space.
DocLines ==
    {"3.", "methodology", "2.1 setup", " II. Related Work", "hello world",
     "12", "abstract: x", "references", ""}

RECURSIVE SeqsOf(_, _)
\* The sequences over S of length n
SeqsOf(S, n) ==
    IF n = 0 THEN {<< >>}
    ELSE {Append(q, x) : q \in SeqsOf(S, n - 1), x \in S}

DocTexts ==
    {Join(q, "\n") : q \in UNION {SeqsOf(DocLines, n) : n \in 0..MaxLines}}

NumberTokens == {"1", "2.3", "12.4.1", "ii", "IV", "mix", "x2", "a"}

NumberMarks == {"", ".", ")"}

NumberRests ==
    {"", " results", " Related Work", " see www.x.org", " the figure shows",
     " results.", " a b c d e f g h i j", " a b c d e f g h i",
     " rq1: what", "\tsetup"}

NumberedLines ==
    {t \o m \o r : t \in NumberTokens, m \in NumberMarks, r \in NumberRests}

OtherLines ==
    SECTION_TEXT_ONLY \cup
    {"references", "Referencias ", "references cited", "bibliography",
     "Bibliography", "Materials And Methods", "CONCLUSIONE", "fig 1",
     "Figure 2. overview", "figure", "table 3: sizes", "table", "(12)",
     "(12", "Abstract- we", "resumen", "keywords: a, b", "index terms a",
     "palabras clave", "see http://x.y", "HTTPS://x", "2. rq1: see www.x.org", "Introduction",
     "METODOLOGÍA", "related  work", "datasets", "john smith",
     "a b c d e"}

LineTexts == NumberedLines \cup OtherLines

\* Documents longer than MaxLines: one with more lines than the title scan
\* reads (an author-like line at the last position it reads and one right
\* after it), one with a noise line between two content lines
SampleDocs ==
    {Join(<< "paper title", "john smith", "t3", "t4", "t5", "t6", "t7", "t8",
             "t9", "t10", "t11", "t12", "t13", "t14", "ana ruiz",
             "mary jones", "methodology" >>, "\n"),
     "hello world\n12\nmethodology\nabstract: x"}

\* ------------------------------------------------------------------------
\* Constructor
\* ------------------------------------------------------------------------

RECURSIVE StripNonBlank(_, _)
StripNonBlank(ls, k) ==
    IF k > Len(ls) THEN << >>
    ELSE IF Strip(ls[k]) # "" THEN << Strip(ls[k]) >> \o StripNonBlank(ls, k + 1)
    ELSE StripNonBlank(ls, k + 1)

_prepare_lines(text) == StripNonBlank(SplitLines(text), 1)

Preamble == [type |-> "preamble", header |-> None, content |-> << >>]

\* TextPreprocessor.__init__: self.warnings
NoWarnings ==
    [repeated_headers_removed |-> FALSE, abstract_detected |-> FALSE,
     references_removed |-> FALSE, page_numbers_removed |-> FALSE]

Init ==
    /\ raw_text \in DocTexts \cup LineTexts \cup SampleDocs
    /\ lines = _prepare_lines(raw_text)
    /\ title = ""
    /\ authors = ""
    /\ sections = << >>
    /\ current = Preamble
    /\ pending_section_number = None
    /\ i = 1
    /\ line = None
    /\ label = None
    /\ headers = None
    /\ pc = "process"
    /\ original_text = ""
    /\ cleaned_text = ""
    /\ warnings = NoWarnings
    /\ calls = 1

\* ------------------------------------------------------------------------
\* Title and authors
\* ------------------------------------------------------------------------

scan_limit == 15

RECURSIVE ScanTitleAuthorsFirst(_, _, _, _)
\* Variant: an author-like line goes to the authors whatever the title holds
ScanTitleAuthorsFirst(ls, k, title_lines, authors_found) ==
    IF k > Len(ls) \/ k > scan_limit
    THEN [title_lines |-> title_lines, authors |-> authors_found]
    ELSE IF classify_line(ls[k]) \in {"abstract", "section"}
    THEN [title_lines |-> title_lines, authors |-> authors_found]
    ELSE IF RE_AUTHOR(ls[k])
    THEN ScanTitleAuthorsFirst(ls, k + 1, title_lines,
                               Append(authors_found, ls[k]))
    ELSE ScanTitleAuthorsFirst(ls, k + 1, Append(title_lines, ls[k]),
                               authors_found)

RECURSIVE ScanTitle(_, _, _, _)
\* The loop of detect_title_and_authors from position k on
ScanTitle(ls, k, title_lines, authors_found) ==
    IF k > Len(ls) \/ k > scan_limit
    THEN [title_lines |-> title_lines, authors |-> authors_found]
    ELSE IF classify_line(ls[k]) \in {"abstract", "section"}
    THEN [title_lines |-> title_lines, authors |-> authors_found]
    ELSE IF RE_AUTHOR(ls[k]) /\ title_lines # << >>
    THEN ScanTitle(ls, k + 1, title_lines, Append(authors_found, ls[k]))
    ELSE ScanTitle(ls, k + 1, Append(title_lines, ls[k]), authors_found)

\* process, first half: detect_title_and_authors, then build_sections up to
\* its loop
detect_title_and_authors ==
    /\ pc = "process"
    /\ LET r == ScanTitle(lines, 1, << >>, << >>)
       IN /\ title' = Strip(Join(r.title_lines, " "))
          /\ authors' = Join(r.authors, ", ")
    /\ current' = Preamble
    /\ pending_section_number' = None
    /\ i' = 1
    /\ pc' = "build"
    /\ UNCHANGED << raw_text, lines, sections, line, label, headers >>
    /\ UNCHANGED outer_vars

\* ------------------------------------------------------------------------
\* Section construction: build_sections
\* ------------------------------------------------------------------------

\* The locals of build_sections together with self.sections
BuildState ==
    [sections |-> sections, current |-> current,
     pending |-> pending_section_number]

\* Variant: no "continue", the number line falls through to the content
OnSectionNumberFallsThrough(st, text) ==
    [st EXCEPT !.pending = Some(text), !.current.content = Append(@, text)]

\* label == "section_number"
OnSectionNumber(st, text) == [st EXCEPT !.pending = Some(text)]

\* Variant: the number and the heading joined without the space
SectionHeaderNoSpace(pending, text) ==
    IF Truthy(pending) THEN pending[1] \o text ELSE text

\* The header of a new section node
SectionHeader(pending, text) ==
    IF Truthy(pending) THEN pending[1] \o " " \o text ELSE text

\* Variant: the open node is not appended when a section starts
OnSectionNoAppend(st, text) ==
    [sections |-> st.sections,
     current |-> [type |-> "section",
                  header |-> Some(SectionHeader(st.pending, text)),
                  content |-> << >>],
     pending |-> None]

\* label == "section"
OnSection(st, text) ==
    [sections |-> Append(st.sections, st.current),
     current |-> [type |-> "section",
                  header |-> Some(SectionHeader(st.pending, text)),
                  content |-> << >>],
     pending |-> None]

\* label == "subsection"
OnSubsection(st, text) ==
    [sections |-> Append(st.sections, st.current),
     current |-> [type |-> "subsection",
                  header |-> Some(text),
                  content |-> << >>],
     pending |-> st.pending]

\* Variant: the line is put in front of the content
OnContentPrepended(st, text) ==
    [st EXCEPT !.current.content = << text >> \o @]

\* Any other label but "noise": current["content"].append(line)
OnContent(st, text) ==
    [st EXCEPT !.current.content = Append(@, text)]

\* After the loop: self.sections.append(current)
OnEnd(st) == Append(st.sections, st.current)

InLoop == pc = "build" /\ i <= Len(lines)

\* One iteration of the loop: line = self.lines[i], label = classify_line(line)
Iterate(lab) ==
    /\ InLoop
    /\ classify_line(lines[i]) = lab
    /\ line' = Some(lines[i])
    /\ label' = Some(lab)

\* The iteration leaves the build state as st and goes on to the next line
Continue(st) ==
    /\ sections' = st.sections
    /\ current' = st.current
    /\ pending_section_number' = st.pending
    /\ i' = i + 1
    /\ UNCHANGED << raw_text, lines, title, authors, headers, pc >>
    /\ UNCHANGED outer_vars

\* Variant: "continue" in place of "break"
StepReferencesContinue ==
    /\ Iterate("references")
    /\ Continue(BuildState)

StepReferences ==
    /\ Iterate("references")
    /\ pc' = "break"
    /\ UNCHANGED << raw_text, lines, title, authors, sections, current,
                    pending_section_number, i, headers >>
    /\ UNCHANGED outer_vars

StepSectionNumber ==
    /\ Iterate("section_number")
    /\ Continue(OnSectionNumber(BuildState, lines[i]))

StepSection ==
    /\ Iterate("section")
    /\ Continue(OnSection(BuildState, lines[i]))

StepSubsection ==
    /\ Iterate("subsection")
    /\ Continue(OnSubsection(BuildState, lines[i]))

\* Variant: no noise test, the line falls through to the content
StepNoiseFallsThrough ==
    /\ Iterate("noise")
    /\ Continue(OnContent(BuildState, lines[i]))

StepNoise ==
    /\ Iterate("noise")
    /\ Continue(BuildState)

StepContent ==
    /\ \E lab \in {"abstract", "keywords", "content"} : Iterate(lab)
    /\ Continue(OnContent(BuildState, lines[i]))

\* Variant: an open node without header and content is not appended
FinishSkipsEmpty ==
    /\ \/ pc = "build" /\ i > Len(lines)
       \/ pc = "break"
    /\ sections' = IF current.header = None /\ current.content = << >>
                   THEN sections ELSE OnEnd(BuildState)
    /\ pc' = "returned"
    /\ UNCHANGED << raw_text, lines, title, authors, current,
                    pending_section_number, i, line, label, headers >>
    /\ UNCHANGED outer_vars

\* After the loop (or the break): the open node is appended; process returns
Finish ==
    /\ \/ pc = "build" /\ i > Len(lines)
       \/ pc = "break"
    /\ sections' = OnEnd(BuildState)
    /\ pc' = "returned"
    /\ UNCHANGED << raw_text, lines, title, authors, current,
                    pending_section_number, i, line, label, headers >>
    /\ UNCHANGED outer_vars

RECURSIVE BuildFrom(_, _, _)
\* The loop of build_sections from position k of ls on, as one function:
\* the value of self.sections when build_sections returns
BuildFrom(ls, k, st) ==
    IF k > Len(ls) THEN OnEnd(st)
    ELSE LET lab == classify_line(ls[k])
         IN IF lab = "references" THEN OnEnd(st)
            ELSE IF lab = "section_number"
            THEN BuildFrom(ls, k + 1, OnSectionNumber(st, ls[k]))
            ELSE IF lab = "section"
            THEN BuildFrom(ls, k + 1, OnSection(st, ls[k]))
            ELSE IF lab = "subsection"
            THEN BuildFrom(ls, k + 1, OnSubsection(st, ls[k]))
            ELSE IF lab = "noise"
            THEN BuildFrom(ls, k + 1, st)
            ELSE BuildFrom(ls, k + 1, OnContent(st, ls[k]))

\* build_sections on a fresh instance whose lines are ls
build_sections(ls) ==
    BuildFrom(ls, 1, [sections |-> << >>, current |-> Preamble,
                      pending |-> None])

\* ------------------------------------------------------------------------
\* Headers-only projection
\* ------------------------------------------------------------------------

RECURSIVE SectionHeadersAnyKind(_, _)
\* Variant: no test of the node's kind
SectionHeadersAnyKind(nodes, k) ==
    IF k > Len(nodes) THEN << >>
    ELSE IF Truthy(nodes[k].header)
    THEN << nodes[k].header[1] >> \o SectionHeadersAnyKind(nodes, k + 1)
    ELSE SectionHeadersAnyKind(nodes, k + 1)

RECURSIVE SectionHeaders(_, _)
SectionHeaders(nodes, k) ==
    IF k > Len(nodes) THEN << >>
    ELSE IF nodes[k].type = "section" /\ Truthy(nodes[k].header)
    THEN << nodes[k].header[1] >> \o SectionHeaders(nodes, k + 1)
    ELSE SectionHeaders(nodes, k + 1)

extract_pdf_headers ==
    /\ pc = "returned"
    /\ headers' = Some(SectionHeaders(sections, 1))
    /\ pc' = "projected"
    /\ UNCHANGED << raw_text, lines, title, authors, sections, current,
                    pending_section_number, i, line, label >>
    /\ UNCHANGED outer_vars

Next ==
    \/ detect_title_and_authors
    \/ StepReferences
    \/ StepSectionNumber
    \/ StepSection
    \/ StepSubsection
    \/ StepNoise
    \/ StepContent
    \/ Finish
    \/ extract_pdf_headers

Spec == Init /\ [][Next]_vars

\* ------------------------------------------------------------------------
\* TextPreprocessor (app/controllers/text_preprocessor.py)
\* ------------------------------------------------------------------------

RECURSIVE SplitAt(_, _)
SplitAt(s, p) ==
    LET stops == {q \in p..Len(s) : Ch(s, q) = "\n"}
        q == IF stops = {} THEN Len(s) + 1
             ELSE CHOOSE m \in stops : \A n \in stops : m <= n
    IN IF q > Len(s) THEN << SubSeq(s, p, Len(s)) >>
       ELSE << SubSeq(s, p, q - 1) >> \o SplitAt(s, q + 1)

\* str.split("\n"): one piece more than there are line breaks
SplitNewline(s) == SplitAt(s, 1)

RECURSIVE RemoveDigitsFrom(_, _)
RemoveDigitsFrom(s, p) ==
    IF p > Len(s) THEN ""
    ELSE IF IsDigit(Ch(s, p)) THEN RemoveDigitsFrom(s, p + 1)
    ELSE Ch(s, p) \o RemoveDigitsFrom(s, p + 1)

\* re.sub(r"\d+", "", s)
RemoveDigits(s) == RemoveDigitsFrom(s, 1)

RECURSIVE CollapseSpacesFrom(_, _)
CollapseSpacesFrom(s, p) ==
    IF p > Len(s) THEN ""
    ELSE IF IsSpace(Ch(s, p))
    THEN " " \o CollapseSpacesFrom(s, SkipSpaces(s, p))
    ELSE Ch(s, p) \o CollapseSpacesFrom(s, p + 1)

\* re.sub(r"\s+", " ", s)
CollapseSpaces(s) == CollapseSpacesFrom(s, 1)

\* re.fullmatch(r"\d+", s)
IsPageNumber(s) == s # "" /\ \A k \in 1..Len(s) : IsDigit(Ch(s, k))

\* Variant: the key keeps the digits
NormalizedKeepsDigits(stripped) == Lower(CollapseSpaces(stripped))

\* _remove_margins: the key of a stripped line
normalized(stripped) == Lower(CollapseSpaces(RemoveDigits(stripped)))

\* _remove_margins, first loop: frequency[key] over the non-blank lines of ls
frequency(ls, key) ==
    Cardinality({k \in 1..Len(ls) :
                    Strip(ls[k]) # "" /\ normalized(Strip(ls[k])) = key})

\* The fate of line ls[k] in the second loop of _remove_margins
MarginFate(ls, k) ==
    LET stripped == Strip(ls[k])
    IN IF stripped = "" THEN "blank"
       ELSE IF IsPageNumber(stripped) THEN "page_number"
       ELSE IF frequency(ls, normalized(stripped)) > 1 THEN "repeated"
       ELSE "kept"

RECURSIVE filtered(_, _)
\* _remove_margins, second loop from position k on: the lines kept
filtered(ls, k) ==
    IF k > Len(ls) THEN << >>
    ELSE IF MarginFate(ls, k) = "kept" THEN << ls[k] >> \o filtered(ls, k + 1)
    ELSE filtered(ls, k + 1)

\* Stage 1
_remove_margins ==
    /\ pc = "margins"
    /\ LET ls == SplitNewline(cleaned_text)
           fates == {MarginFate(ls, k) : k \in 1..Len(ls)}
       IN /\ cleaned_text' = Strip(Join(filtered(ls, 1), "\n"))
          /\ warnings' =
                [warnings EXCEPT
                    !.page_numbers_removed = @ \/ "page_number" \in fates,
                    !.repeated_headers_removed = @ \/ "repeated" \in fates]
    /\ pc' = "sections"
    /\ UNCHANGED << raw_text, lines, title, authors, sections, current,
                    pending_section_number, i, line, label, headers,
                    original_text, calls >>

\* \w
IsWordCh(c) ==
    IsDigit(c) \/ c = "_" \/ LowerCh(c) \in AsciiLetters \cup AccentedLetters

\* \b at the gap before position p of s
WordBoundary(s, p) == IsWordCh(Ch(s, p - 1)) # IsWordCh(Ch(s, p))

\* \bw\b matches at position p of s, ignoring case
WholeWordAt(s, p, w) ==
    AtCI(s, p, w) /\ WordBoundary(s, p) /\ WordBoundary(s, p + Len(w))

\* Variant: no word boundaries
SearchSubstring(s, ws) ==
    LET hits == {p \in 1..Len(s) : \E w \in ws : AtCI(s, p, w)}
    IN IF hits = {} THEN 0 ELSE CHOOSE m \in hits : \A n \in hits : m <= n

\* re.search(r"\b(w1|w2|...)\b", s, re.IGNORECASE): the start of the first
\* match, 0 when there is none
SearchWord(s, ws) ==
    LET hits == {p \in 1..Len(s) : \E w \in ws : WholeWordAt(s, p, w)}
    IN IF hits = {} THEN 0 ELSE CHOOSE m \in hits : \A n \in hits : m <= n

\* _remove_sections: text[intro_match.start():]
CutBeforeIntroduction(text) ==
    LET intro_match == SearchWord(text, {"introduction"})
    IN IF intro_match > 0 THEN SubSeq(text, intro_match, Len(text)) ELSE text

\* _remove_sections: the start of ref_match, 0 when there is none
ReferencesStart(text) == SearchWord(text, {"references", "bibliography"})

\* Stage 2
_remove_sections ==
    /\ pc = "sections"
    /\ LET text == CutBeforeIntroduction(cleaned_text)
           ref_match == ReferencesStart(text)
       IN /\ cleaned_text' =
                Strip(IF ref_match > 0 THEN SubSeq(text, 1, ref_match - 1)
                      ELSE text)
          /\ warnings' =
                [warnings EXCEPT
                    !.abstract_detected =
                        @ \/ SearchWord(cleaned_text,
                                        {"abstract", "resumen"}) > 0,
                    !.references_removed = @ \/ ref_match > 0]
    /\ pc' = "citations"
    /\ UNCHANGED << raw_text, lines, title, authors, sections, current,
                    pending_section_number, i, line, label, headers,
                    original_text, calls >>

\* [A-Za-z\s,&]
IsApaCh(c) == LowerCh(c) \in AsciiLetters \/ IsSpace(c) \/ c \in {",", "&"}

SkipApa(s, p) ==
    CHOOSE q \in p..(Len(s) + 1) :
        /\ \A k \in p..(q - 1) : IsApaCh(Ch(s, k))
        /\ ~IsApaCh(Ch(s, q))

RECURSIVE CiteTail(_, _)
\* (?:[-,]\d+)* from position p on
CiteTail(s, p) ==
    IF Ch(s, p) \in {"-", ","} /\ IsDigit(Ch(s, p + 1))
    THEN CiteTail(s, SkipDigits(s, p + 1))
    ELSE p

\* First position q >= p of s that holds no line break: \n*
SkipNewlines(s, p) ==
    CHOOSE q \in p..(Len(s) + 1) :
        /\ \A k \in p..(q - 1) : Ch(s, k) = "\n"
        /\ Ch(s, q) # "\n"

\* First position q >= p of s that holds no blank
SkipBlanks(s, p) ==
    CHOOSE q \in p..(Len(s) + 1) :
        /\ \A k \in p..(q - 1) : Ch(s, k) = " "
        /\ Ch(s, q) # " "

\* The patterns of _remove_inline_citations and _rebuild_paragraphs:
\* the position after the match of the pattern at position p of s, 0 when
\* the pattern does not match there
MatchEnd(pattern, s, p) ==
    CASE pattern = "email" ->                       \* \S+@\S+
            LET e == SkipWord(s, p)
            IN IF \E q \in (p + 1)..(e - 2) : Ch(s, q) = "@" THEN e ELSE 0
      [] pattern = "ieee" ->                        \* \[\d+(?:[-,]\d+)*\]
            LET d == SkipDigits(s, p + 1)
                t == CiteTail(s, d)
            IN IF Ch(s, p) = "[" /\ d > p + 1 /\ Ch(s, t) = "]"
               THEN t + 1 ELSE 0
      [] pattern = "apa" ->               \* \([A-Za-z\s,&]+,\s*\d{4}\)
            LET e == SkipApa(s, p + 1)
            IN IF /\ Ch(s, p) = "("
                  /\ \E c \in (p + 2)..(e - 1) :
                        /\ Ch(s, c) = ","
                        /\ \A k \in (c + 1)..(e - 1) : IsSpace(Ch(s, k))
                  /\ \A k \in e..(e + 3) : IsDigit(Ch(s, k))
                  /\ Ch(s, e + 4) = ")"
               THEN e + 5 ELSE 0
      [] pattern = "mention" ->
            \* \b(figure|table|equation|fig\.?|tab\.?)\s*\d*, ignoring case
            LET k == IF AtCI(s, p, "figure") THEN p + 6
                     ELSE IF AtCI(s, p, "table") THEN p + 5
                     ELSE IF AtCI(s, p, "equation") THEN p + 8
                     ELSE IF AtCI(s, p, "fig") \/ AtCI(s, p, "tab")
                     THEN IF Ch(s, p + 3) = "." THEN p + 4 ELSE p + 3
                     ELSE 0
            IN IF k > 0 /\ WordBoundary(s, p)
               THEN SkipDigits(s, SkipSpaces(s, k)) ELSE 0
      [] pattern = "hyphen_break" ->                \* -\s*\n
            LET e == SkipSpaces(s, p + 1)
                breaks == {q \in (p + 1)..(e - 1) : Ch(s, q) = "\n"}
            IN IF Ch(s, p) = "-" /\ breaks # {}
               THEN 1 + CHOOSE m \in breaks : \A n \in breaks : m >= n
               ELSE 0
      [] pattern = "soft_break" ->                  \* \n(?=[a-z])
            IF Ch(s, p) = "\n" /\ Ch(s, p + 1) \in AsciiLetters
            THEN p + 1 ELSE 0
      [] pattern = "blank_lines" ->                 \* \n{2,}
            IF Ch(s, p) = "\n" /\ Ch(s, p + 1) = "\n"
            THEN SkipNewlines(s, p) ELSE 0
      [] pattern = "blanks" ->                      \*  {2,}
            IF Ch(s, p) = " " /\ Ch(s, p + 1) = " "
            THEN SkipBlanks(s, p) ELSE 0

RECURSIVE SubFrom(_, _, _, _)
SubFrom(pattern, repl, s, p) ==
    IF p > Len(s) THEN ""
    ELSE LET e == MatchEnd(pattern, s, p)
         IN IF e > 0 THEN repl \o SubFrom(pattern, repl, s, e)
            ELSE Ch(s, p) \o SubFrom(pattern, repl, s, p + 1)

\* re.sub(pattern, repl, s): the matches from left to right, not overlapping
Sub(pattern, repl, s) == SubFrom(pattern, repl, s, 1)

\* Stage 3
_remove_inline_citations ==
    /\ pc = "citations"
    /\ cleaned_text' =
          Strip(Sub("mention", "",
                    Sub("apa", "", Sub("ieee", "",
                                       Sub("email", "", cleaned_text)))))
    /\ pc' = "paragraphs"
    /\ UNCHANGED << raw_text, lines, title, authors, sections, current,
                    pending_section_number, i, line, label, headers,
                    original_text, warnings, calls >>

\* Stage 4
_rebuild_paragraphs ==
    /\ pc = "paragraphs"
    /\ cleaned_text' =
          Strip(Sub("blanks", " ",
                    Sub("blank_lines", "\n\n",
                        Sub("soft_break", " ",
                            Sub("hyphen_break", "", cleaned_text)))))
    /\ pc' = "case"
    /\ UNCHANGED << raw_text, lines, title, authors, sections, current,
                    pending_section_number, i, line, label, headers,
                    original_text, warnings, calls >>

\* Stage 5
_normalize_case ==
    /\ pc = "case"
    /\ cleaned_text' = Lower(cleaned_text)
    /\ pc' = "construct"
    /\ UNCHANGED << raw_text, lines, title, authors, sections, current,
                    pending_section_number, i, line, label, headers,
                    original_text, warnings, calls >>

\* ------------------------------------------------------------------------
\* The full pipeline: extract_pdf_headers
\* ------------------------------------------------------------------------

MaxRawLines == 3

\* Lines of the extracted text: number-only lines, bare headings, a page
\* number, a running header in two printings, the words stage 2 looks for
\* and a blank line.
RawLines ==
    {"1.", "2.", "Introduction", "Methods", "12", "J Vol 1", " j  vol 22",
     "References", ""}

\* Extracted texts that exercise the patterns of stages 2 to 4
ExampleTexts ==
    {"1.\nMethods\n2.\nResults",
     "7\nTitle of it\n1.\nIntroduction\nwe see\n2.\nMethods\nReferences\nx",
     "Abstract\nsee a@b.org and [1,2-4]\n(Doe & Roe, 2020) in Fig. 3\nend",
     "A pre-\n processing\nstep\n\n\nNext  one\nTable 2\nEquations",
     "Abstract of my introductions\nthe Introduction:\nno_references\nBibliography\nx",
     "resumen\nreintroduction2\nreferences-a\n",
     "Methods\n12\nJ Vol 1\n j  vol 22",
     "Intro text\n2.1 Setup\n(3)\nReferencias\nAfter",
     " \n\t\n"}

ExtractedTexts ==
    ExampleTexts \cup
    {Join(q, "\n") : q \in UNION {SeqsOf(RawLines, n) : n \in 0..MaxRawLines}}

InitPipeline ==
    /\ original_text \in ExtractedTexts
    /\ cleaned_text = ""
    /\ warnings = NoWarnings
    /\ calls = 0
    /\ raw_text = ""
    /\ lines = << >>
    /\ title = ""
    /\ authors = ""
    /\ sections = << >>
    /\ current = Preamble
    /\ pending_section_number = None
    /\ i = 1
    /\ line = None
    /\ label = None
    /\ headers = None
    /\ pc = "extract"

\* extract_pdf_headers: no text was extracted, ValueError
ExtractFails ==
    /\ pc = "extract"
    /\ Strip(original_text) = ""
    /\ pc' = "error"
    /\ UNCHANGED << raw_text, lines, title, authors, sections, current,
                    pending_section_number, i, line, label, headers,
                    original_text, cleaned_text, warnings, calls >>

\* TextPreprocessor(extracted_text)
TextPreprocessor ==
    /\ pc = "extract"
    /\ Strip(original_text) # ""
    /\ cleaned_text' = original_text
    /\ warnings' = NoWarnings
    /\ pc' = "margins"
    /\ UNCHANGED << raw_text, lines, title, authors, sections, current,
                    pending_section_number, i, line, label, headers,
                    original_text, calls >>

\* PDFSectionExtractor(clean_text), then the call of process()
PDFSectionExtractor ==
    /\ pc = "construct"
    /\ raw_text' = cleaned_text
    /\ lines' = _prepare_lines(cleaned_text)
    /\ title' = ""
    /\ authors' = ""
    /\ sections' = << >>
    /\ calls' = 1
    /\ pc' = "process"
    /\ UNCHANGED << current, pending_section_number, i, line, label, headers,
                    original_text, cleaned_text, warnings >>

NextPipeline ==
    \/ ExtractFails
    \/ TextPreprocessor
    \/ _remove_margins
    \/ _remove_sections
    \/ _remove_inline_citations
    \/ _rebuild_paragraphs
    \/ _normalize_case
    \/ PDFSectionExtractor
    \/ Next

SpecPipeline == InitPipeline /\ [][NextPipeline]_vars

\* ------------------------------------------------------------------------
\* process() called again on the same instance
\* ------------------------------------------------------------------------

MaxCalls == 2

\* A further call of process(): self.sections is the list of the call before
ProcessAgain ==
    /\ pc = "returned"
    /\ calls < MaxCalls
    /\ calls' = calls + 1
    /\ pc' = "process"
    /\ UNCHANGED << raw_text, lines, title, authors, sections, current,
                    pending_section_number, i, line, label, headers,
                    original_text, cleaned_text, warnings >>

NextRecall ==
    \/ ProcessAgain
    \/ Next

SpecRecall == Init /\ [][NextRecall]_vars

\* ------------------------------------------------------------------------
\* Properties of build_sections
\* ------------------------------------------------------------------------

\* The label of every line of the input
LineLabels == [k \in 1..Len(lines) |-> classify_line(lines[k])]

Returned == pc \in {"returned", "projected"}

\* Position of the first label references in labs, Len(labs) + 1 when none
RefPos(labs) ==
    CHOOSE r \in 1..(Len(labs) + 1) :
        /\ \A k \in 1..(r - 1) : labs[k] # "references"
        /\ r = Len(labs) + 1 \/ labs[r] = "references"

HeaderLabels == {"section", "subsection"}

ContentLabels == {"abstract", "keywords", "content"}

\* ls without its element at position k
Without(ls, k) == SubSeq(ls, 1, k - 1) \o SubSeq(ls, k + 1, Len(ls))

\* The texts in the content of the nodes
ContentTexts(nodes) ==
    UNION {{nodes[n].content[c] : c \in 1..Len(nodes[n].content)} :
              n \in 1..Len(nodes)}

\* C1: when a line is labelled subsection the pending section number is
\* dropped: right after the subsection node is opened the pending-number
\* slot is empty.
C1_SubsectionDropsPending ==
    pc = "build" /\ label = Some("subsection") => pending_section_number = None

\* C2: right after a line labelled section, the pending-number slot is
\* empty, one node has been closed per header line so far and the open node
\* is a section node without content; when a section_number line precedes
\* it with only content, noise, abstract or keywords lines (or nothing) in
\* between, the header is that number, one space, then the section line.
C2_NumberMergedIntoSection ==
    pc = "build" /\ label = Some("section") =>
        LET k == i - 1
            labs == LineLabels
            nums == {j \in 1..(k - 1) :
                        /\ labs[j] = "section_number"
                        /\ \A m \in (j + 1)..(k - 1) :
                              labs[m] \in ContentLabels \cup {"noise"}}
        IN /\ pending_section_number = None
           /\ current.type = "section"
           /\ current.content = << >>
           /\ Len(sections) =
                 Cardinality({j \in 1..k : labs[j] \in HeaderLabels})
           /\ \A j \in nums :
                 current.header = Some(lines[j] \o " " \o lines[k])

\* C2 witness: "3.", a content line, then "methodology" has just been merged
C2_Witness ==
    /\ pc = "build"
    /\ label = Some("section")
    /\ i = 4
    /\ LineLabels[1] = "section_number"
    /\ LineLabels[2] = "content"
    /\ current.header = Some("3. methodology")

\* C3: a line labelled section_number is in the content of no emitted node
\* and emits no node (the output holds one node per header line before the
\* boundary, and the last open one); when no section line follows it before
\* the end of the input or the references boundary, the output is the one of
\* the input without that line.
C3_NumberLineNeverContent ==
    Returned =>
        LET labs == LineLabels
            r == RefPos(labs)
            texts == ContentTexts(sections)
        IN /\ Len(sections) =
                 Cardinality({k \in 1..(r - 1) : labs[k] \in HeaderLabels}) + 1
           /\ \A k \in 1..Len(lines) :
                 labs[k] = "section_number" =>
                    /\ lines[k] \notin texts
                    /\ (\A m \in (k + 1)..(r - 1) : labs[m] # "section")
                          => sections = build_sections(Without(lines, k))

\* C3 witness: a number line followed by a subsection only has been processed
C3_Witness ==
    /\ Returned
    /\ Len(lines) = 3
    /\ LineLabels = << "content", "section_number", "subsection" >>
    /\ Len(sections) = 2

\* C4: iteration stops at the first line labelled references: the output is
\* the one of the lines before it alone, every content line comes from a
\* line before it, and the node open at the boundary is the last element of
\* the output.
C4_StopsAtReferences ==
    Returned =>
        LET r == RefPos(LineLabels)
        IN r <= Len(lines) =>
              /\ i = r
              /\ sections = build_sections(SubSeq(lines, 1, r - 1))
              /\ sections[Len(sections)] = current
              /\ ContentTexts(sections) \subseteq
                    {lines[k] : k \in 1..(r - 1)}

\* C4 witness: a run that stopped at references with a usable line after it
C4_Witness ==
    /\ Returned
    /\ Len(lines) = 3
    /\ LineLabels[1] = "section"
    /\ LineLabels[2] = "references"
    /\ LineLabels[3] \in HeaderLabels \cup ContentLabels
    /\ Len(sections) = 2

\* C5: the sections one process run on a fresh builder returns hold exactly
\* one node of kind preamble, and it is the first.
C5_OnePreambleFirst ==
    Returned =>
        /\ Len(sections) >= 1
        /\ sections[1].type = "preamble"
        /\ \A n \in 2..Len(sections) : sections[n].type # "preamble"

\* C5 witness: a returned run with three header lines and an empty preamble
C5_Witness ==
    /\ Returned
    /\ Len(sections) = 4
    /\ sections[1].content = << >>

RECURSIVE Labelled(_, _, _, _)
\* The lines at the positions k..(r - 1) whose label is in ls, in order
Labelled(labs, ls, k, r) ==
    IF k >= r THEN << >>
    ELSE IF labs[k] \in ls
    THEN << lines[k] >> \o Labelled(labs, ls, k + 1, r)
    ELSE Labelled(labs, ls, k + 1, r)

NoHeaderLine(labs) == \A k \in 1..Len(labs) : labs[k] \notin HeaderLabels

\* C6, as claimed: without a line labelled section or subsection, process
\* yields a single preamble node whose content is all the lines not
\* labelled noise, in order.
C6_PreambleHoldsAllNonNoise ==
    Returned =>
        LET labs == LineLabels
        IN NoHeaderLine(labs) =>
              sections =
                 << [type |-> "preamble", header |-> None,
                     content |-> Labelled(labs, Labels \ {"noise"}, 1,
                                          Len(lines) + 1)] >>

\* C6, amended: without a line labelled section or subsection, process
\* yields a single preamble node whose content is, in order, the lines
\* before the first references line that are labelled abstract, keywords or
\* content (neither noise nor section_number).
C6_PreambleHoldsContentLines ==
    Returned =>
        LET labs == LineLabels
        IN NoHeaderLine(labs) =>
              sections =
                 << [type |-> "preamble", header |-> None,
                     content |-> Labelled(labs, ContentLabels, 1,
                                          RefPos(labs))] >>

\* C6 witness: a header-free input with a number line between content lines
C6_Witness ==
    /\ Returned
    /\ Len(lines) = 3
    /\ LineLabels = << "abstract", "section_number", "content" >>
    /\ Len(sections[1].content) = 2

\* C7: without a line labelled section or subsection the result of process
\* is exactly one preamble node and the headers-only projection is empty;
\* for the empty input that node has no header and no content.
C7_NoHeadersOnePreamble ==
    pc = "projected" /\ NoHeaderLine(LineLabels) =>
        /\ Len(sections) = 1
        /\ sections[1].type = "preamble"
        /\ headers = Some(<< >>)
        /\ lines = << >> =>
              /\ sections[1].header = None
              /\ sections[1].content = << >>

\* C7 witness: the projection of an input of blank lines only
C7_Witness ==
    /\ pc = "projected"
    /\ lines = << >>
    /\ raw_text # ""
    /\ headers = Some(<< >>)

\* The positions of the section nodes with a non-empty header
HeadedSections ==
    {k \in 1..Len(sections) :
        sections[k].type = "section" /\ Truthy(sections[k].header)}

\* C8: the headers-only projection is exactly the headers of the section
\* nodes with a non-empty header, in the order of the nodes; no subsection
\* or preamble node contributes to it.
C8_HeadersAreSectionHeaders ==
    pc = "projected" =>
        LET headed == HeadedSections
            nth(n) == CHOOSE k \in headed :
                         Cardinality({j \in headed : j <= k}) = n
        IN /\ Len(headers[1]) = Cardinality(headed)
           /\ \A n \in 1..Len(headers[1]) :
                 headers[1][n] = sections[nth(n)].header[1]

\* C8 witness: a projection over section, subsection, section
C8_Witness ==
    /\ pc = "projected"
    /\ Len(sections) = 4
    /\ sections[2].type = "section"
    /\ sections[3].type = "subsection"
    /\ sections[4].type = "section"
    /\ Len(headers[1]) = 2

\* ------------------------------------------------------------------------
\* Properties of classify_line
\* ------------------------------------------------------------------------

\* The rules of the cascade, in the order of the classifier's contract:
\* 1 references heading, 2 caption or bare integer, 3 RQ heading, 4 URL,
\* 5 abstract, 6 keywords, 7 number only, 8 numbered heading, 9 bare
\* heading vocabulary, 10 anything else
RuleMatches(n, s) ==
    CASE n = 1 -> RE_REFERENCES(s)
      [] n = 2 -> \/ RE_FIGURE_CAPTION(s) \/ RE_TABLE_CAPTION(s)
                  \/ RE_FIGURE_INLINE(s) \/ RE_TABLE_INLINE(s)
                  \/ RE_EQUATION(s)
      [] n = 3 -> RE_RQ_HEADER(s)
      [] n = 4 -> RE_URL(s)
      [] n = 5 -> RE_ABSTRACT(s)
      [] n = 6 -> RE_KEYWORDS(s)
      [] n = 7 -> RE_SECTION_NUMBER_ONLY(s)
      [] n = 8 -> RE_SECTION(s)
      [] n = 9 -> RE_SECTION_TEXT_ONLY(s)
      [] OTHER -> TRUE

\* The labels rule n can give
RuleLabels(n) ==
    CASE n = 1 -> {"references"}
      [] n = 2 -> {"noise"}
      [] n = 3 -> {"section"}
      [] n = 4 -> {"noise"}
      [] n = 5 -> {"abstract"}
      [] n = 6 -> {"keywords"}
      [] n = 7 -> {"section_number"}
      [] n = 8 -> {"noise", "section", "subsection"}
      [] n = 9 -> {"noise", "section"}
      [] OTHER -> {"content"}

Rules == 1..10

FirstRule(s) ==
    CHOOSE n \in Rules :
        /\ RuleMatches(n, s)
        /\ \A m \in 1..(n - 1) : ~RuleMatches(m, s)

\* The rules other than n whose pattern matches s too
AlsoMatching(n, s) == {m \in Rules \ {10} : m # n /\ RuleMatches(m, s)}

\* C9: every classified line gets one of the eight labels, and it is a
\* label of the first rule of the cascade that matches the line: of the
\* rules 1 to 7 and 10 their one label, of rule 8 noise, section or
\* subsection, of rule 9 noise or section.
C9_FirstMatchingRuleWins ==
    label # None =>
        /\ label[1] \in Labels
        /\ label[1] \in RuleLabels(FirstRule(line[1]))

\* C9 witness: an RQ heading that the URL and numbered-heading rules match too
C9_Witness ==
    /\ label = Some("section")
    /\ FirstRule(line[1]) = 3
    /\ {4, 8} \subseteq AlsoMatching(3, line[1])

\* A numbered heading: the pattern and the caption test of rule 8
NumberedHeading(s) == RE_SECTION(s) /\ ~_looks_like_caption(s)

IsRomanToken(s) ==
    \A k \in 1..Len(s) : LowerCh(Ch(s, k)) \in RomanLetters

\* The label the numbering token of a numbered heading asks for
TokenLabel(s) ==
    LET token == SectionNumberGroup(s)
        dots == Cardinality({k \in 1..Len(token) : Ch(token, k) = "."})
    IN IF IsRomanToken(token) THEN "section"
       ELSE IF dots = 0 THEN "section"
       ELSE "subsection"

\* C10, as claimed: a line that starts with a numbering token followed by
\* text and is not rejected as caption-like is a section when the token is
\* a Roman numeral or an Arabic number of depth 1, and a subsection when
\* the token is Arabic of depth 2 or more.
C10_NumberedHeadingByDepth ==
    label # None /\ NumberedHeading(line[1]) =>
        label[1] = TokenLabel(line[1])

\* C10, amended: the same, for a line that contains no URL-like substring
\* (the URL rule comes before the numbered-heading rule).
C10_NumberedHeadingByDepthNoUrl ==
    label # None /\ NumberedHeading(line[1]) /\ ~RE_URL(line[1]) =>
        label[1] = TokenLabel(line[1])

\* C10 witness: a depth-3 Arabic heading labelled subsection
C10_Witness ==
    /\ label = Some("subsection")
    /\ NumberedHeading(line[1])
    /\ ~RE_URL(line[1])
    /\ SectionNumberGroup(line[1]) = "12.4.1"


\* group(2) of RE_SECTION: the line after the numbering token, the mark and
\* the white space
SectionTextGroup(s) ==
    SubSeq(s, SkipSpaces(s, SkipOpt(s, NumberTokenEnd(s), {".", ")"})), Len(s))

\* At most 10 words, no caption keyword among them, no period at the end
PlainText(s) ==
    LET words == Words(Lower(s))
    IN /\ Len(words) <= 10
       /\ \A k \in 1..Len(words) : words[k] \notin NON_SECTION_KEYWORDS
       /\ Ch(s, Len(s)) # "."

\* C12, as claimed: the caption test of rule 8 looks at the remainder of the
\* line after the numbering token: a numbered line whose remainder has at
\* most 10 words, none of the caption keywords and no final period is
\* labelled section or subsection, and a depth-1 numbered line with exactly
\* 10 words after the number is a section.
C12_CaptionTestOnRemainder ==
    label # None /\ RE_SECTION(line[1])
                 /\ PlainText(SectionTextGroup(line[1])) =>
        /\ label[1] \in {"section", "subsection"}
        /\ (/\ CountDots(SectionNumberGroup(line[1])) = 0
            /\ Len(Words(SectionTextGroup(line[1]))) = 10)
              => label[1] = "section"

\* C12, amended: the caption test looks at the whole line, the numbering
\* token counted as a word: a numbered line without URL-like substring that
\* has at most 10 words in all, none of the caption keywords and no final
\* period is labelled section or subsection, a depth-1 one with exactly 9
\* words after the number is a section, and one with 10 words after the
\* number is noise unless it is an RQ heading.
C12_CaptionTestOnWholeLine ==
    label # None /\ RE_SECTION(line[1]) /\ ~RE_URL(line[1]) =>
        LET rest == Words(SectionTextGroup(line[1]))
        IN /\ PlainText(line[1]) => label[1] \in {"section", "subsection"}
           /\ (/\ PlainText(line[1])
               /\ CountDots(SectionNumberGroup(line[1])) = 0
               /\ Len(rest) = 9) => label[1] = "section"
           /\ Len(rest) = 10 /\ ~RE_RQ_HEADER(line[1]) => label[1] = "noise"

\* C12 witness: a depth-1 numbered line with 9 words after the number,
\* labelled section
C12_Witness ==
    /\ label = Some("section")
    /\ line = Some("1. a b c d e f g h i")
    /\ PlainText(line[1])

\* The loop of build_sections has been left
LoopLeft == pc \in {"break", "returned", "projected"}

\* C13, as claimed: a line that is the word references or the word
\* bibliography, in any case, is labelled references and build_sections
\* stops at it.
C13_ReferencesOrBibliography ==
    label # None /\ Lower(line[1]) \in {"references", "bibliography"} =>
        label[1] = "references" /\ LoopLeft

\* C13, amended: a line that is the word references or the word
\* referencias, in any case, is labelled references and build_sections
\* stops at it; the word bibliography is labelled content and the loop
\* goes on.
C13_ReferencesOrReferencias ==
    label # None =>
        /\ Lower(line[1]) \in {"references", "referencias"} =>
              label[1] = "references" /\ LoopLeft
        /\ Lower(line[1]) = "bibliography" =>
              label[1] = "content" /\ current.content # << >>

\* C13 witness: the loop has stopped at a Spanish references heading
C13_Witness ==
    /\ label = Some("references")
    /\ line = Some("Referencias")
    /\ pc = "break"

\* C14, as claimed: the first word of every line that matches the bare
\* heading pattern of rule 9 is a valid starter, so the guard never fires
\* and the line is labelled section.
C14_BareHeadingAlwaysSection ==
    label # None /\ RE_SECTION_TEXT_ONLY(line[1]) =>
        /\ Words(Lower(line[1]))[1] \in VALID_SECTION_STARTERS
        /\ label[1] = "section"

\* C14, amended: the same for every line that matches the pattern except
\* the word conclusione, which conclusiones? accepts: it is no valid starter
\* and the guard labels it noise.
C14_BareHeadingSectionButConclusione ==
    label # None /\ RE_SECTION_TEXT_ONLY(line[1]) =>
        IF Lower(line[1]) = "conclusione"
        THEN label[1] = "noise"
        ELSE /\ Words(Lower(line[1]))[1] \in VALID_SECTION_STARTERS
             /\ label[1] = "section"

\* C14 witness: a heading of several words, upper case, labelled section
C14_Witness ==
    /\ label = Some("section")
    /\ line = Some("Materials And Methods")
    /\ RE_SECTION_TEXT_ONLY(line[1])

RECURSIVE Pick(_, _, _)
\* The elements of ls at the positions in K, from position k on, in order
Pick(ls, K, k) ==
    IF k > Len(ls) THEN << >>
    ELSE IF k \in K THEN << ls[k] >> \o Pick(ls, K, k + 1)
    ELSE Pick(ls, K, k + 1)

RECURSIVE PositionsOf(_, _, _, _)
\* The positions k..(r - 1) of labs whose label is in ls, in order
PositionsOf(labs, ls, k, r) ==
    IF k >= r THEN << >>
    ELSE IF labs[k] \in ls THEN << k >> \o PositionsOf(labs, ls, k + 1, r)
    ELSE PositionsOf(labs, ls, k + 1, r)

\* t ends with u
EndsWith(t, u) ==
    Len(t) >= Len(u) /\ SubSeq(t, Len(t) - Len(u) + 1, Len(t)) = u

\* After every iteration of build_sections: there is one node per header
\* line read so far, after the preamble and in the order of the header
\* lines, the last of them still open; the content of a node is made of
\* the lines labelled abstract, keywords or content between its header line
\* and the next one, unchanged and in order; noise lines are in no node.
NodesHoldTheirLines ==
    pc \in {"build", "break", "returned", "projected"} =>
        LET labs == LineLabels
            stop == IF pc = "build" THEN i ELSE RefPos(labs)
            H == PositionsOf(labs, HeaderLabels, 1, stop)
            nodes == IF Returned THEN sections ELSE Append(sections, current)
            from(n) == IF n = 1 THEN 1 ELSE H[n - 1] + 1
            to(n) == IF n > Len(H) THEN stop ELSE H[n]
        IN /\ Len(nodes) = Len(H) + 1
           /\ ~Returned => Len(sections) = Len(H)
           /\ nodes[1].type = "preamble"
           /\ \A n \in 2..Len(nodes) :
                 /\ nodes[n].type = labs[H[n - 1]]
                 /\ EndsWith(nodes[n].header[1], lines[H[n - 1]])
           /\ \A n \in 1..Len(nodes) :
                 nodes[n].content =
                    Labelled(labs, ContentLabels, from(n), to(n))
           /\ \A k \in 1..(stop - 1) :
                 labs[k] = "noise" => lines[k] \notin ContentTexts(nodes)

\* A node that has been appended to self.sections stays as it is
ClosedNodesKept ==
    \A n \in 1..Len(sections) :
        Len(sections') >= n /\ sections'[n] = sections[n]

\* C15: in build_sections every line labelled abstract, keywords or content
\* before the references line is appended unchanged, once, to the node of
\* the last header line before it (the preamble when there is none); noise
\* lines are in no node; the nodes are appended in the order of their
\* header lines, each when the next header line is read or at the end, and
\* an appended node is never changed.
C15_ContentGoesToOpenNode ==
    []NodesHoldTheirLines /\ [][ClosedNodesKept]_vars

\* C15 witness: a returned run whose preamble and section hold one content
\* line each, with a noise line in between that is in neither
C15_Witness ==
    /\ Returned
    /\ lines = << "hello world", "12", "methodology", "abstract: x" >>
    /\ sections[1].content = << "hello world" >>
    /\ sections[2].content = << "abstract: x" >>

\* C16: title and authors are made of the lines among the first 15 that
\* precede the first line labelled abstract or section, each of them in
\* exactly one of the two: the author-like lines but the first scanned line
\* are the authors, the other lines the title; so the first scanned line is
\* a title line and there are authors only when there is a title.
C16_TitleAndAuthorsFromHead ==
    pc \in {"build", "break", "returned", "projected"} =>
        LET labs == LineLabels
            stops == {k \in 1..Len(lines) : labs[k] \in {"abstract", "section"}}
            scanned == {k \in 1..Len(lines) :
                           k <= 15 /\ \A h \in stops : k < h}
            A == {k \in scanned : k > 1 /\ RE_AUTHOR(lines[k])}
            T == scanned \ A
        IN /\ title = Strip(Join(Pick(lines, T, 1), " "))
           /\ authors = Join(Pick(lines, A, 1), ", ")
           /\ authors # "" => title # ""
           /\ scanned # {} => 1 \in T /\ SubSeq(title, 1, Len(lines[1])) = lines[1]

\* C16 witness: a document of 17 lines without abstract or section in its
\* first 16: the author-like line at position 15 is an author, the one at
\* position 16 is not read
C16_Witness ==
    /\ Returned
    /\ Len(lines) = 17
    /\ RE_AUTHOR(lines[15]) /\ RE_AUTHOR(lines[16])
    /\ title = "paper title t3 t4 t5 t6 t7 t8 t9 t10 t11 t12 t13 t14"
    /\ authors = "john smith, ana ruiz"

\* C18: process() carries no state from one call to the next: whenever a
\* call returns, the first or a later one on the same instance, the
\* sections are those a fresh instance builds from the same lines, with
\* exactly one preamble node.
C18_SecondCallSameDocument ==
    Returned =>
        /\ sections = build_sections(lines)
        /\ Cardinality({n \in 1..Len(sections) :
                           sections[n].type = "preamble"}) = 1

\* ------------------------------------------------------------------------
\* Properties of the normalizer
\* ------------------------------------------------------------------------

\* C11: after stage 1 the text is made of exactly the non-blank lines of
\* the input that are not digits-only and whose key (digits stripped, white
\* space collapsed, lower-cased) no other non-blank line has, in their
\* order; every line whose key occurs twice or more is gone;
\* repeated_headers_removed is set iff a line was dropped for a repeated
\* key and page_numbers_removed iff a digits-only line was dropped.
C11_MarginsKeepUniqueLines ==
    pc = "sections" =>
        LET ls == SplitNewline(original_text)
            nonblank == {k \in 1..Len(ls) : Strip(ls[k]) # ""}
            key == [k \in nonblank |->
                       Lower(CollapseSpaces(RemoveDigits(Strip(ls[k]))))]
            count == [k \in nonblank |->
                         Cardinality({j \in nonblank : key[j] = key[k]})]
            pages == {k \in nonblank : IsPageNumber(Strip(ls[k]))}
            keep == {k \in nonblank \ pages : count[k] = 1}
            kept == SplitNewline(cleaned_text)
        IN /\ cleaned_text = Strip(Join(Pick(ls, keep, 1), "\n"))
           /\ \A k \in nonblank :
                 count[k] >= 2 =>
                     \A j \in 1..Len(kept) : Strip(kept[j]) # Strip(ls[k])
           /\ warnings.repeated_headers_removed =
                 (\E k \in nonblank \ pages : count[k] >= 2)
           /\ warnings.page_numbers_removed = (pages # {})

\* C11 witness: stage 1 has dropped a page number and two printings of a
\* running header that differ in digits, case and spacing, and kept a line.
C11_Witness ==
    /\ pc = "sections"
    /\ original_text = "Methods\n12\nJ Vol 1\n j  vol 22"
    /\ cleaned_text = "Methods"
    /\ warnings.repeated_headers_removed
    /\ warnings.page_numbers_removed


\* The positions of s where one of the words ws stands as a whole word,
\* in any case
Occurrences(s, ws) ==
    {p \in 1..Len(s) : \E w \in ws : WholeWordAt(s, p, w)}

\* The least element of the set of numbers S, d when S is empty
LeastOr(S, d) == IF S = {} THEN d ELSE CHOOSE m \in S : \A n \in S : m <= n

\* Stage 2 takes the text t and the flags w to the text u and the flags v
TrimsAtIntroductionAndReferences(t, w, u, v) ==
    LET a == LeastOr(Occurrences(t, {"introduction"}), 1)
        refs == {p \in Occurrences(t, {"references", "bibliography"}) : p >= a}
        b == LeastOr(refs, Len(t) + 1)
    IN /\ u = Strip(SubSeq(t, a, b - 1))
       /\ v.references_removed = (w.references_removed \/ refs # {})
       /\ v.abstract_detected =
             (w.abstract_detected \/ Occurrences(t, {"abstract", "resumen"}) # {})
       /\ v.repeated_headers_removed = w.repeated_headers_removed
       /\ v.page_numbers_removed = w.page_numbers_removed

\* C17: stage 2, applied to the output of stage 1: the word abstract or
\* resumen only sets abstract_detected; the text before the first whole
\* word introduction is discarded; then the first whole word references or
\* bibliography of what is left is discarded with all that follows it and
\* references_removed is set; without such a word the flag stays unset and
\* nothing is cut at the end.
C17_SectionsTrimmed ==
    [][pc = "sections" =>
          /\ ~warnings.references_removed /\ ~warnings.abstract_detected
          /\ TrimsAtIntroductionAndReferences(cleaned_text, warnings,
                                              cleaned_text', warnings')]_vars

\* C17 witness: stage 2 has found the word abstract, has cut before the
\* word introduction, passing over "introductions", and at the word
\* bibliography, passing over "no_references"
C17_Witness ==
    /\ pc = "citations"
    /\ original_text =
          "Abstract of my introductions\nthe Introduction:\nno_references\nBibliography\nx"
    /\ cleaned_text = "Introduction:\nno_references"
    /\ warnings.abstract_detected
    /\ warnings.references_removed


\* A number-only line of the form <int>.
IsIntDot(s) ==
    /\ Len(s) >= 2
    /\ Ch(s, Len(s)) = "."
    /\ \A k \in 1..(Len(s) - 1) : IsDigit(Ch(s, k))

\* The positions in ls of the number-only lines that a bare heading line
\* follows
NumberedHeadingLines(ls) ==
    {k \in 1..(Len(ls) - 1) :
        IsIntDot(ls[k]) /\ RE_SECTION_TEXT_ONLY(ls[k + 1])}

\* C19: in the full pipeline, for an extracted text with two or more
\* headings printed as a number-only line <int>. followed by a bare heading
\* line, stage 1 removes none of those number lines and every section
\* header of the result starts with its number.
C19_NumberLinesSurvive ==
    LET ls == SplitNewline(original_text)
        numbered == NumberedHeadingLines(ls)
    IN Cardinality(numbered) >= 2 =>
          /\ pc = "sections" =>
                LET kept == SplitNewline(cleaned_text)
                IN \A k \in numbered :
                      \E j \in 1..Len(kept) : kept[j] = ls[k]
          /\ pc = "projected" =>
                \A h \in 1..Len(headers[1]) : IsDigit(Ch(headers[1][h], 1))

=============================================================================
